---------------------------- MODULE Spec2Model ----------------------------
(***************************************************************************)
(* A model of the indexing, scheduling, hashing and routing structures of  *)
(* src/daa_project.c++:                                                    *)
(*   - the AVL tree of customers       (customerBST, insertAVL)            *)
(*   - the max-heap of orders          (orderHeap, orderHeapifyUp/Down)    *)
(*   - the resizing hash table         (DynamicInventoryTable)             *)
(*   - the delivery graph              (deliveryGraph, adjList, Dijkstra)  *)
(*   - the LRU cache                   (DataStructures::LRUCache)          *)
(*   - the order calls and refunds     (cancelOrder, processRefund, ...)   *)
(* The structures are independent in the source; each has its own          *)
(* specifications here (SpecAVL, SpecHeap, SpecHash, SpecGraph, SpecCache, *)
(* SpecLifecycle, ...) over the one set of variables.                      *)
(***************************************************************************)
EXTENDS Integers, Sequences, FiniteSets, Bags, TLC

VARIABLES
    \* ---- AVL tree of customers
    customerBST,      \* BSTNode *customerBST: the root (NULL or a node record)
    bstInserted,      \* history: key -> name given by the first insert of key
    bstRotated,       \* history: some insert so far performed a rotation
    bstReport,        \* the last insert: what its caller reports, and history
    \* ---- max-heap of orders
    orderHeap,        \* Domain::Order orderHeap[MAX_ORDERS]: the stored cells
    orderHeapSize,    \* int orderHeapSize
    heapFault,        \* "none", or the outcome of a store past the array end
    lastOp,           \* the heap operation that completed last
    lastExtracted,    \* the order the last extraction returned
    \* ---- resizing hash table
    table,            \* vector<HashNode> table: the nodes written so far
    currentSize,      \* int currentSize
    itemCount,        \* int itemCount
    hung,             \* a probe loop was entered that never exits
    profile,          \* the key stream of this run (see KeyOf)
    issued,           \* number of distinct keys inserted so far
    latest,           \* history: key -> quantity of the most recent insert
    lookupKey,        \* the key of a retrieve, when it is the last call
    lookupResult,     \* what that retrieve returned
    \* ---- delivery graph
    deliveryGraph,    \* int deliveryGraph[][]: the entries written so far
    locationCount,    \* int locationCount
    adjList,          \* AdjNode *adjList[]: the lists written so far
    edgeCalls,        \* number of addDeliveryEdge calls so far
    distResult,       \* dist[] of dijkstraOptimized, when it is the last call
    parentResult,     \* its parent[]
    distSource,       \* its source (-1 when the last call is another)
    mstResult,        \* what primMSTOptimized computed and printed, likewise
    tourResult,       \* what tspApproximation and displayTSPRoute produced
    visitOrder,       \* the vertices bfsDelivery or dfsDelivery printed
    graphCall,        \* the last graph call: its name, vertex ids and outcome
    \* ---- LRU cache
    cacheMap,         \* map<Key, Node*> cacheMap: key -> the node it points to
    cacheList,        \* the nodes from head->next to tail->prev
    cacheFault,       \* "none", or "crash" after a use of freed memory
    cacheCall,        \* the last cache call: its name, key, outcome and value
    \* ---- refunds
    refunds,          \* RefundRecord refunds[MAX_REFUNDS]: the records written
    paidOut,          \* history: the refund ids processRefund has paid
    refundCall        \* the last order or refund call and what it returned

avlVars   == <<customerBST, bstInserted, bstRotated, bstReport>>
heapVars  == <<orderHeap, orderHeapSize, heapFault, lastOp, lastExtracted>>
hashVars  == <<table, currentSize, itemCount, hung, profile, issued, latest,
               lookupKey, lookupResult>>
graphVars == <<deliveryGraph, locationCount, adjList, edgeCalls,
               distResult, parentResult, distSource,
               mstResult, tourResult, visitOrder, graphCall>>
cacheVars  == <<cacheMap, cacheList, cacheFault, cacheCall>>
refundVars == <<refunds, paidOut, refundCall>>
vars      == <<avlVars, heapVars, hashVars, graphVars, cacheVars, refundVars>>

Max(a, b) == IF a >= b THEN a ELSE b

\* The array or vector f with x stored in cell i.
Store(f, i, x) == (i :> x) @@ f

(***************************************************************************)
(*                      BalancedIndex: the AVL tree                        *)
(***************************************************************************)

\* Customer ids offered to insertAVL are 1..MaxCustomerId.
MaxCustomerId == 6
CustomerIds   == 1..MaxCustomerId
CustomerNames == {"ann", "bob"}

\* nullptr
NULL == <<>>

\* int height(BSTNode *n): the cached height, 0 for nullptr.
height(n) == IF n = NULL THEN 0 ELSE n.height

\* int balanceFactor(BSTNode *n)
balanceFactor(n) == IF n = NULL THEN 0 ELSE height(n.left) - height(n.right)

\* BSTNode *createNode(int key, const string &name)
createNode(key, name) ==
    [key |-> key, name |-> name, left |-> NULL, right |-> NULL, height |-> 1]

\* BSTNode *rightRotate(BSTNode *y)
rightRotate(y) ==
    LET x  == y.left
        T2 == x.right
        y1 == [y EXCEPT !.left = T2,
                        !.height = Max(height(T2), height(y.right)) + 1]
    IN  [x EXCEPT !.right = y1,
                  !.height = Max(height(x.left), height(y1)) + 1]

\* leftRotate with the re-attachment of T2 forgotten: the subtree is lost.
leftRotateDropT2(x) ==
    LET y  == x.right
        x1 == [x EXCEPT !.right = NULL,
                        !.height = Max(height(x.left), 0) + 1]
    IN  [y EXCEPT !.left = x1,
                  !.height = Max(height(x1), height(y.right)) + 1]

\* leftRotate that leaves the subtree as it is.
leftRotateSkipped(x) == x

\* BSTNode *leftRotate(BSTNode *x)
leftRotate(x) ==
    LET y  == x.right
        T2 == y.left
        x1 == [x EXCEPT !.right = T2,
                        !.height = Max(height(x.left), height(T2)) + 1]
    IN  [y EXCEPT !.left = x1,
                  !.height = Max(height(x1), height(y.right)) + 1]

\* insertAVL without the rebalancing step: a plain BST insert that still
\* keeps the cached heights.
RECURSIVE insertNoRebalance(_, _, _)
insertNoRebalance(node, key, name) ==
    IF node = NULL THEN createNode(key, name)
    ELSE IF key = node.key THEN node
    ELSE LET n1 == IF key < node.key
                   THEN [node EXCEPT !.left = insertNoRebalance(node.left, key, name)]
                   ELSE [node EXCEPT !.right = insertNoRebalance(node.right, key, name)]
         IN  [n1 EXCEPT !.height = 1 + Max(height(n1.left), height(n1.right))]

\* BSTNode *insertAVL(BSTNode *node, int key, const string &name)
RECURSIVE insertAVL(_, _, _)
insertAVL(node, key, name) ==
    IF node = NULL THEN createNode(key, name)
    ELSE IF key # node.key
    THEN LET n1 == IF key < node.key
                   THEN [node EXCEPT !.left = insertAVL(node.left, key, name)]
                   ELSE [node EXCEPT !.right = insertAVL(node.right, key, name)]
             n2 == [n1 EXCEPT !.height = 1 + Max(height(n1.left), height(n1.right))]
             bf == balanceFactor(n2)
         IN  IF bf > 1 /\ key < n2.left.key THEN rightRotate(n2)
             ELSE IF bf < -1 /\ key > n2.right.key THEN leftRotate(n2)
             ELSE IF bf > 1 /\ key > n2.left.key
                  THEN rightRotate([n2 EXCEPT !.left = leftRotate(n2.left)])
             ELSE IF bf < -1 /\ key < n2.right.key
                  THEN leftRotate([n2 EXCEPT !.right = rightRotate(n2.right)])
             ELSE n2
    ELSE node

\* searchBST that never descends into a right subtree.
RECURSIVE searchBSTLeftOnly(_, _)
searchBSTLeftOnly(root, key) ==
    IF root = NULL THEN NULL
    ELSE IF key = root.key THEN root
    ELSE IF key < root.key THEN searchBSTLeftOnly(root.left, key)
    ELSE NULL

\* BSTNode *searchBST(BSTNode *root, int key): the node found, or NULL.
RECURSIVE searchBST(_, _)
searchBST(root, key) ==
    IF root = NULL THEN NULL
    ELSE IF key = root.key THEN root
    ELSE IF key < root.key THEN searchBST(root.left, key)
    ELSE searchBST(root.right, key)

\* void inorderBST(BSTNode *root): the (key, name) pairs in print order.
RECURSIVE inorderBST(_)
inorderBST(root) ==
    IF root = NULL THEN <<>>
    ELSE inorderBST(root.left) \o << <<root.key, root.name>> >>
         \o inorderBST(root.right)

\* What the caller of insertAVL reports.  insertAVL returns the root of the
\* tree, for a key already present as for a new one, and every caller goes
\* on as after an insertion ("Added customer with ID", customerCount++).
\* present and renamed are history: the key was in the tree before the
\* call, and under another name than the one now given.
InsertReport(key, name) ==
    [outcome |-> "added",
     present |-> key \in DOMAIN bstInserted,
     renamed |-> key \in DOMAIN bstInserted /\ bstInserted[key] # name]

\* The callers (src lines 1712, 3266, 3551):
\*     customerBST = insertAVL(customerBST, id, name);
InsertCustomer(key, name) ==
    LET t == insertAVL(customerBST, key, name)
    IN  /\ customerBST' = t
        /\ bstInserted' = IF key \in DOMAIN bstInserted THEN bstInserted
                          ELSE (key :> name) @@ bstInserted
        /\ bstRotated' = (bstRotated
                            \/ t # insertNoRebalance(customerBST, key, name))
        /\ bstReport' = InsertReport(key, name)
        /\ UNCHANGED <<heapVars, hashVars, graphVars,
                       cacheVars, refundVars>>

\* The true height of a subtree, computed from its shape only.
RECURSIVE TrueHeight(_)
TrueHeight(t) ==
    IF t = NULL THEN 0 ELSE 1 + Max(TrueHeight(t.left), TrueHeight(t.right))

RECURSIVE TreeKeys(_)
TreeKeys(t) ==
    IF t = NULL THEN {} ELSE {t.key} \cup TreeKeys(t.left) \cup TreeKeys(t.right)

RECURSIVE TreeSize(_)
TreeSize(t) ==
    IF t = NULL THEN 0 ELSE 1 + TreeSize(t.left) + TreeSize(t.right)

RECURSIVE Balanced(_)
Balanced(t) ==
    \/ t = NULL
    \/ /\ TrueHeight(t.left) - TrueHeight(t.right) \in {-1, 0, 1}
       /\ Balanced(t.left)
       /\ Balanced(t.right)

RECURSIVE IsBST(_)
IsBST(t) ==
    \/ t = NULL
    \/ /\ \A k \in TreeKeys(t.left) : k < t.key
       /\ \A k \in TreeKeys(t.right) : k > t.key
       /\ IsBST(t.left)
       /\ IsBST(t.right)

(***************************************************************************)
(*                   PriorityScheduler: the order heap                     *)
(***************************************************************************)

\* static const int MAX_ORDERS = 300;
MAX_ORDERS == 300

\* Orders carry priorities 1..MaxPriority (the source draws randInt(1, 10)).
MaxPriority == 3
\* SpecHeap interleaves inserts and extractions on heaps of up to MaxHeapLen
\* orders; SpecHeapCap fills the array with orders of priority CapPriority.
MaxHeapLen  == 4
CapPriority == 1

\* o.totalAmount = randDouble(300, 800): the amount every order of a run is
\* created with (modifyOrder may change it).
DemoTotal == 300

\* The fields of Domain::Order the heap and the order calls read, for an
\* order as demoOrderManagement creates it.
Order(id, prio) ==
    [orderId |-> id, priority |-> prio, totalAmount |-> DemoTotal,
     status |-> "CREATED"]
\* No order: what extractMax reports on an empty heap.
EmptyOrder == Order(0, 0)

\* swap(orderHeap[i], orderHeap[j])
SwapCells(heap, i, j) == [heap EXCEPT ![i] = heap[j], ![j] = heap[i]]

\* orderHeapifyUp with "if" for "while": one swap at most.
orderHeapifyUpOnce(heap, index) ==
    IF index <= 0 THEN heap
    ELSE LET parent == (index - 1) \div 2
         IN  IF heap[parent].priority >= heap[index].priority THEN heap
             ELSE SwapCells(heap, parent, index)

\* inline void orderHeapifyUp(int index): the array after the loop.
RECURSIVE orderHeapifyUp(_, _)
orderHeapifyUp(heap, index) ==
    IF index <= 0 THEN heap
    ELSE LET parent == (index - 1) \div 2
         IN  IF heap[parent].priority >= heap[index].priority THEN heap
             ELSE orderHeapifyUp(SwapCells(heap, parent, index), parent)

\* orderHeapifyDown that never looks at the right child.
RECURSIVE orderHeapifyDownLeftOnly(_, _, _)
orderHeapifyDownLeftOnly(heap, size, index) ==
    LET left    == 2 * index + 1
        largest == IF left < size /\ heap[left].priority > heap[index].priority
                   THEN left ELSE index
    IN  IF largest = index THEN heap
        ELSE orderHeapifyDownLeftOnly(SwapCells(heap, largest, index), size, largest)

\* inline void orderHeapifyDown(int index), with orderHeapSize = size.
RECURSIVE orderHeapifyDown(_, _, _)
orderHeapifyDown(heap, size, index) ==
    LET left     == 2 * index + 1
        right    == left + 1
        largest1 == IF left < size /\ heap[left].priority > heap[index].priority
                    THEN left ELSE index
        largest  == IF right < size /\ heap[right].priority > heap[largest1].priority
                    THEN right ELSE largest1
    IN  IF largest = index THEN heap
        ELSE orderHeapifyDown(SwapCells(heap, largest, index), size, largest)

\* One iteration of the loop of demoOrderManagement:
\*     o.orderId = orderHeapSize + 1; ... o.priority = randInt(1, 10);
\*     orderHeap[orderHeapSize++] = o;
\*     orderHeapifyUp(orderHeapSize - 1);
\* There is no test of orderHeapSize against MAX_ORDERS.  With the array
\* full the store goes past its end, which is undefined: the builds either
\* fault ("crash") or write the memory after the array as if it were cell
\* MAX_ORDERS ("overrun").  Nothing is modelled after either.
InsertOrder(prio) ==
    LET o == Order(orderHeapSize + 1, prio)
    IN  /\ heapFault = "none"
        /\ IF orderHeapSize < MAX_ORDERS
           THEN /\ orderHeap' = orderHeapifyUp(Store(orderHeap, orderHeapSize, o),
                                               orderHeapSize)
                /\ orderHeapSize' = orderHeapSize + 1
                /\ heapFault' = "none"
           ELSE \E outcome \in {"crash", "overrun"} :
                /\ heapFault' = outcome
                /\ orderHeap' = IF outcome = "crash" THEN orderHeap
                                ELSE orderHeapifyUp(Store(orderHeap, orderHeapSize, o),
                                                    orderHeapSize)
                /\ orderHeapSize' = orderHeapSize + 1
        /\ lastOp' = "insert"
        /\ UNCHANGED <<lastExtracted, avlVars, hashVars, graphVars,
                       cacheVars, refundVars>>

\* extractMax of the specification (section 4.2); the source has no caller
\* of orderHeapifyDown.  "Removes and returns the root; moves the last
\* element into the root position, shrinks the sequence by one, and sifts
\* down"; on an empty heap it reports "empty" and changes nothing.
ExtractMax ==
    /\ heapFault = "none"
    /\ IF orderHeapSize = 0
       THEN /\ lastExtracted' = EmptyOrder
            /\ UNCHANGED <<orderHeap, orderHeapSize>>
       ELSE LET last  == orderHeapSize - 1
                moved == [i \in 0..(last - 1) |->
                              IF i = 0 THEN orderHeap[last] ELSE orderHeap[i]]
            IN  /\ lastExtracted' = orderHeap[0]
                /\ orderHeapSize' = last
                /\ orderHeap' = orderHeapifyDown(moved, last, 0)
    /\ lastOp' = "extract"
    /\ UNCHANGED <<heapFault, avlVars, hashVars, graphVars,
                       cacheVars, refundVars>>

\* Max-heap order of the stored cells 0..size-1.
HeapOrdered(heap, size) ==
    \A i \in 1..(size - 1) : heap[(i - 1) \div 2].priority >= heap[i].priority

\* Number of cells 0..size-1 holding order o.
Occurrences(heap, size, o) == Cardinality({i \in 0..(size - 1) : heap[i] = o})

(***************************************************************************)
(*          ResizableHashStore: class DynamicInventoryTable                *)
(***************************************************************************)

\* static const int INITIAL_SIZE = 53;
INITIAL_SIZE == 53

\* A key is a string, modelled as the sequence of its character codes.  A
\* run inserts the keys of one stream, KeyOf(profile, 0), KeyOf(profile, 1),
\* ... in that order: two printable characters, the first rising by
\* profile[1] and the second falling by profile[2] with the index.  The
\* stream <<1, 1>> gives keys with one and the same character sum (they all
\* hash alike, as anagrams do); <<1, 0>> gives consecutive sums.
MaxKeys     == 40
Profiles    == {<<1, 1>>, <<1, 0>>}
KeyOf(p, i) == <<65 + i * p[1], 110 - i * p[2]>>
\* The first RekeyWindow keys of the stream may be inserted again, with any
\* quantity of Quantities; every other insert carries quantity 1.
RekeyWindow == 2
Quantities  == {1, 2}

\* HashNode() : used(false) {}
FreeNode == [name |-> <<>>, item |-> 0, used |-> FALSE]

\* table[i]: the node written to slot i, or the default-constructed one.
\* The variable table holds the written slots only; the vector has
\* currentSize nodes.
Slot(tab, i) == IF i \in DOMAIN tab THEN tab[i] ELSE FreeNode

\* The sum of the character codes: the loop of hash().
RECURSIVE SumChars(_)
SumChars(key) == IF key = <<>> THEN 0 ELSE Head(key) + SumChars(Tail(key))

\* int hash(const string& key), with currentSize = size.
hash(key, size) == SumChars(key) % size

\* int nextPrime(int n): trial division by every i with i * i <= n.
RECURSIVE nextPrime(_)
nextPrime(n) ==
    IF \A i \in 2..n : i * i <= n => n % i # 0 THEN n ELSE nextPrime(n + 1)

\* The probe loop shared by insert and retrieve:
\*     while (table[idx].used && table[idx].name != name)
\*         { idx = (idx + step) % currentSize; step++; }
\* The result is the index at which the loop exits, or -1 when it does not.
\* After k iterations started at (idx, step) the index is
\*     (idx + step + (step + 1) + ... + (step + k - 1)) % currentSize,
\* and the loop exits at the first k whose slot fails the loop condition.
\* The table is not written during the loop and idx depends on step only
\* modulo the size; the sizes are odd (53 and the primes nextPrime gives), so
\* size * step + size * (size - 1) / 2 is a multiple of size and the loop
\* state (idx, step mod size) recurs after size iterations: a loop that has
\* not exited by then revisits the same occupied slots for ever (until step
\* overflows int after 2^31 rounds).
ProbeLoop(tab, size, name, idx, step) ==
    LET At(k)  == (idx + k * step + (k * (k - 1)) \div 2) % size
        Stays(i) == Slot(tab, i).used /\ Slot(tab, i).name # name
        exits  == {k \in 0..(size - 1) : ~Stays(At(k))}
    IN  IF exits = {} THEN -1
        ELSE At(CHOOSE k \in exits : \A m \in exits : k <= m)

\* The load test of insert: (double)itemCount / currentSize >= 0.7.  The
\* sizes are primes, so the quotient is never exactly 7/10 and the
\* comparison of doubles agrees with the comparison of integers.
LoadAtThreshold(count, size) == 10 * count >= 7 * size

\* table.resize(currentSize) with a larger size: the old nodes stay where
\* they are and default-constructed nodes are appended.
ResizeTable(tab, oldSize, newSize) == tab

\* The state of a DynamicInventoryTable as a record h:
\*     h.table, h.currentSize, h.itemCount, and h.hung (a probe loop of this
\*     object does not exit, so no later statement runs).
RECURSIVE insert(_, _, _)
RECURSIVE RehashLoop(_, _, _, _)

\* The loop of rehash(): for (i = 0; i < oldSize; i++)
\*                           if (oldTable[i].used) insert(name, item);
\* RehashLoop(h, oldTable, lo, hi) is the state after the iterations
\* i = lo, ..., hi - 1 run in that order from state h; a run of iterations is
\* its first half followed by its second half.
RehashLoop(h, oldTable, lo, hi) ==
    IF lo >= hi \/ h.hung THEN h
    ELSE IF hi = lo + 1
         THEN IF Slot(oldTable, lo).used
              THEN insert(h, Slot(oldTable, lo).name, Slot(oldTable, lo).item)
              ELSE h
    ELSE LET mid == (lo + hi) \div 2
         IN  RehashLoop(RehashLoop(h, oldTable, lo, mid), oldTable, mid, hi)

\* void rehash()
rehash(h) ==
    LET oldTable == h.table
        oldSize  == h.currentSize
        newSize  == nextPrime(h.currentSize * 2)
        h1 == [h EXCEPT !.currentSize = newSize,
                        !.table = ResizeTable(h.table, oldSize, newSize),
                        !.itemCount = 0]
    IN  RehashLoop(h1, oldTable, 0, oldSize)

\* void insert(const string& name, const InventoryItem& item)
insert(h, name, item) ==
    LET h1  == IF LoadAtThreshold(h.itemCount, h.currentSize) THEN rehash(h) ELSE h
        idx == ProbeLoop(h1.table, h1.currentSize, name,
                         hash(name, h1.currentSize), 1)
    IN  IF h1.hung THEN h1
        ELSE IF idx = -1 THEN [h1 EXCEPT !.hung = TRUE]
        ELSE [h1 EXCEPT !.itemCount = IF Slot(h1.table, idx).used THEN @ ELSE @ + 1,
                        !.table = Store(@, idx, [name |-> name, item |-> item,
                                                 used |-> TRUE])]

\* bool retrieve(const string& name, InventoryItem& item): <<"found", item>>,
\* <<"notfound", 0>>, or <<"hang", 0>> when the probe loop does not exit.
retrieve(h, name) ==
    LET idx == ProbeLoop(h.table, h.currentSize, name, hash(name, h.currentSize), 1)
    IN  IF idx = -1 THEN <<"hang", 0>>
        ELSE IF Slot(h.table, idx).used /\ Slot(h.table, idx).name = name
             THEN <<"found", Slot(h.table, idx).item>>
        ELSE <<"notfound", 0>>

\* DynamicInventoryTable dynamicInventory as a record.
HashState == [table |-> table, currentSize |-> currentSize,
              itemCount |-> itemCount, hung |-> hung]

\* dynamicInventory.insert(KeyOf(profile, j), qty): the next key of the
\* stream (j = issued) or one of its first RekeyWindow keys again.
InsertItem(j, qty) ==
    LET name == KeyOf(profile, j)
        h    == insert(HashState, name, qty)
    IN  /\ ~hung
        /\ j <= issued
        /\ j < MaxKeys
        /\ table' = h.table
        /\ currentSize' = h.currentSize
        /\ itemCount' = h.itemCount
        /\ hung' = h.hung
        /\ issued' = IF j = issued THEN issued + 1 ELSE issued
        /\ latest' = (name :> qty) @@ latest
        /\ lookupKey' = <<>>
        /\ lookupResult' = <<"none", 0>>
        /\ UNCHANGED <<profile, avlVars, heapVars, graphVars,
                       cacheVars, refundVars>>

\* dynamicInventory.retrieve(KeyOf(profile, j), item)
RetrieveItem(j) ==
    LET name == KeyOf(profile, j)
        r    == retrieve(HashState, name)
    IN  /\ ~hung
        /\ lookupKey' = name
        /\ lookupResult' = r
        /\ hung' = (r[1] = "hang")
        /\ UNCHANGED <<table, currentSize, itemCount, profile, issued, latest,
                       avlVars, heapVars, graphVars,
                       cacheVars, refundVars>>

\* Number of used nodes of the table.
OccupiedCount == Cardinality({i \in 0..(currentSize - 1) : Slot(table, i).used})

(***************************************************************************)
(*                  GraphEngine: the delivery graph                        *)
(***************************************************************************)

\* static const int MAX_LOCATIONS = 20;
MAX_LOCATIONS == 20
Locations == 0..(MAX_LOCATIONS - 1)

\* The marker initDeliveryGraph stores for "no edge".
NO_EDGE == 99999
\* The initial value of dist[] in dijkstraOptimized and of key[] in
\* primMSTOptimized (1e9).
DIST_INF == 1000000000
\* The initial value of minDist in tspApproximation (1e9).
TOUR_INF == 1000000000

\* initDeliveryGraph is called with a size of GraphSizes, addDeliveryEdge
\* with vertices of the graph and a weight of EdgeWeights (of TourWeights
\* in SpecTour), at most MaxEdgeCalls times in a run.
GraphSizes   == {1, 2, 3}
EdgeWeights  == {0, 1, 2}
TourWeights  == {1, TOUR_INF}
\* SpecTraversal: graphs of a size of TraversalSizes with up to
\* MaxTraversalEdges edges, all of weight 1.
TraversalSizes    == {2, 4}
MaxTraversalEdges == 3
MaxEdgeCalls == 2

\* deliveryGraph[i][j] and adjList[i]: the value written last, or the zero
\* and the null pointer of a global that was never written.  The variables
\* hold the written entries only.
Weight(g, i, j) == IF <<i, j>> \in DOMAIN g THEN g[<<i, j>>] ELSE 0
AdjOf(adj, i)   == IF i \in DOMAIN adj THEN adj[i] ELSE <<>>

\* A graph call that ran to its end; every graph function returns void or a
\* route, so a completed call tells its caller nothing else.
Call(op, ids) == [op |-> op, ids |-> ids, outcome |-> "done"]

\* No graph function runs after one of them has faulted.
Running == graphCall.outcome # "fault"

\* The call just made and the results now on display: a call replaces what
\* the call before it showed.
Returned(call, src, dist, parent, mst, tour, order) ==
    /\ graphCall' = call
    /\ distSource' = src
    /\ distResult' = dist
    /\ parentResult' = parent
    /\ mstResult' = mst
    /\ tourResult' = tour
    /\ visitOrder' = order

\* void initDeliveryGraph(int nodes): the rows and columns below nodes only.
InitGraph(nodes) ==
    /\ Running
    /\ locationCount' = nodes
    /\ deliveryGraph' =
         [e \in DOMAIN deliveryGraph \cup ((0..(nodes - 1)) \X (0..(nodes - 1))) |->
             IF e[1] < nodes /\ e[2] < nodes
             THEN (IF e[1] = e[2] THEN 0 ELSE NO_EDGE)
             ELSE deliveryGraph[e]]
    /\ adjList' = [i \in DOMAIN adjList \cup (0..(nodes - 1)) |->
                     IF i < nodes THEN <<>> ELSE adjList[i]]
    /\ Returned(Call("init", <<>>), -1, <<>>, <<>>, <<>>, <<>>, <<>>)
    /\ UNCHANGED <<edgeCalls, avlVars, heapVars, hashVars,
                       cacheVars, refundVars>>

\* AdjNode: one node of an adjacency list.
AdjNode(dest, weight) == [dest |-> dest, weight |-> weight]

\* The four matrix and list updates of addDeliveryEdge, in source order.
AddEdgeToMatrix(g, u, v, w) == Store(Store(g, <<u, v>>, w), <<v, u>>, w)
AddEdgeToLists(adj, u, v, w) ==
    LET a1 == Store(adj, u, <<AdjNode(v, w)>> \o AdjOf(adj, u))
    IN  Store(a1, v, <<AdjNode(u, w)>> \o AdjOf(a1, v))

\* void addDeliveryEdge(int u, int v, int w); the callers add edges after
\* initDeliveryGraph only.
AddEdgeCall(u, v, w) ==
    /\ Running
    /\ locationCount > 0
    /\ deliveryGraph' = AddEdgeToMatrix(deliveryGraph, u, v, w)
    /\ adjList' = AddEdgeToLists(adjList, u, v, w)
    /\ edgeCalls' = edgeCalls + 1
    /\ Returned(Call("addEdge", <<u, v>>), -1, <<>>, <<>>, <<>>, <<>>, <<>>)
    /\ UNCHANGED <<locationCount, avlVars, heapVars, hashVars,
                       cacheVars, refundVars>>

\* addDeliveryEdge, at most MaxEdgeCalls times in a run.
AddEdge(u, v, w) == edgeCalls < MaxEdgeCalls /\ AddEdgeCall(u, v, w)

\* The top of the min-priority queue of (distance, vertex) pairs, ordered
\* as std::greater on pairs orders them.  A pair is pushed only when dist[v]
\* has just dropped to its first component, so the queue never holds the
\* same pair twice and a set stands for it.
PairLess(a, b) == a[1] < b[1] \/ (a[1] = b[1] /\ a[2] < b[2])
QueueTop(pq) == CHOOSE a \in pq : \A b \in pq : a = b \/ PairLess(a, b)

\* The relaxation loop of dijkstraOptimized,
\*     for (v = 0; v < n; v++)
\*         if (deliveryGraph[u][v] && dist[u] + deliveryGraph[u][v] < dist[v])
\* on the Dijkstra state s = [dist, parent, pq], from v on.
RECURSIVE RelaxEdges(_, _, _, _, _)
RelaxEdges(g, s, u, v, n) ==
    IF v >= n THEN s
    ELSE IF Weight(g, u, v) # 0 /\ s.dist[u] + Weight(g, u, v) < s.dist[v]
         THEN LET d == s.dist[u] + Weight(g, u, v)
              IN  RelaxEdges(g, [dist   |-> [s.dist EXCEPT ![v] = d],
                                 parent |-> [s.parent EXCEPT ![v] = u],
                                 pq     |-> s.pq \cup {<<d, v>>}],
                             u, v + 1, n)
         ELSE RelaxEdges(g, s, u, v + 1, n)

\* The while (!pq.empty()) loop of dijkstraOptimized.
RECURSIVE DijkstraLoop(_, _, _)
DijkstraLoop(g, s, n) ==
    IF s.pq = {} THEN s
    ELSE LET top == QueueTop(s.pq)
             d   == top[1]
             u   == top[2]
             s1  == [s EXCEPT !.pq = @ \ {top}]
         IN  IF d > s.dist[u] THEN DijkstraLoop(g, s1, n)
             ELSE DijkstraLoop(g, RelaxEdges(g, s1, u, 0, n), n)

\* void dijkstraOptimized(int src, int n) on matrix g: the final dist[] and
\* parent[] as a record.
dijkstraOptimized(g, src, n) ==
    DijkstraLoop(g,
                 [dist   |-> [[v \in 0..(n - 1) |-> DIST_INF] EXCEPT ![src] = 0],
                  parent |-> [v \in 0..(n - 1) |-> -1],
                  pq     |-> {<<0, src>>}],
                 n)

\* dijkstraOptimized(src, locationCount), as the menu and the demo call it.
RunDijkstra(src) ==
    LET s == dijkstraOptimized(deliveryGraph, src, locationCount)
    IN  /\ Running
        /\ locationCount > 0
        /\ src < locationCount
        /\ Returned(Call("dijkstra", <<src>>), src, s.dist, s.parent,
                    <<>>, <<>>, <<>>)
        /\ UNCHANGED <<deliveryGraph, locationCount, adjList, edgeCalls,
                       avlVars, heapVars, hashVars,
                       cacheVars, refundVars>>

\* The inner loop of bfsDelivery over one adjacency list, from node k on:
\*     if (!visited[cur->dest]) { visited[cur->dest] = true; q[rear++] = cur->dest; }
\* on the state s = [visited, q].
RECURSIVE BfsScan(_, _, _)
BfsScan(list, k, s) ==
    IF k > Len(list) THEN s
    ELSE IF list[k].dest \in s.visited THEN BfsScan(list, k + 1, s)
    ELSE BfsScan(list, k + 1, [visited |-> s.visited \cup {list[k].dest},
                               q       |-> Append(s.q, list[k].dest)])

\* while (front < rear): q[front] is printed and its list scanned.  The
\* vertices are printed in the order they entered q.
RECURSIVE BfsLoop(_, _, _)
BfsLoop(adj, s, front) ==
    IF front > Len(s.q) THEN s.q
    ELSE BfsLoop(adj, BfsScan(AdjOf(adj, s.q[front]), 1, s), front + 1)

\* void bfsDelivery(int start): the vertices printed, in order.
bfsDelivery(adj, start) == BfsLoop(adj, [visited |-> {start}, q |-> <<start>>], 1)

\* void dfsDeliveryUtil(int u, bool visited[]) on the state s = [visited, out],
\* and its loop over the adjacency list of u from node k on.
RECURSIVE dfsDeliveryUtil(_, _, _)
RECURSIVE DfsScan(_, _, _, _)
DfsScan(adj, u, k, s) ==
    IF k > Len(AdjOf(adj, u)) THEN s
    ELSE IF AdjOf(adj, u)[k].dest \in s.visited THEN DfsScan(adj, u, k + 1, s)
    ELSE DfsScan(adj, u, k + 1, dfsDeliveryUtil(adj, AdjOf(adj, u)[k].dest, s))

dfsDeliveryUtil(adj, u, s) ==
    DfsScan(adj, u, 1, [visited |-> s.visited \cup {u}, out |-> Append(s.out, u)])

\* The adjacency lists read from their tails: the oldest edge first.
OldestFirst(adj) ==
    [i \in DOMAIN adj |-> [k \in 1..Len(adj[i]) |-> adj[i][Len(adj[i]) + 1 - k]]]

\* A depth-first walk that takes the neighbour of the oldest edge first.
dfsDeliveryOldestFirst(adj, start) ==
    dfsDeliveryUtil(OldestFirst(adj), start, [visited |-> {}, out |-> <<>>]).out

\* void dfsDelivery(int start): the vertices printed, in order.
dfsDelivery(adj, start) ==
    dfsDeliveryUtil(adj, start, [visited |-> {}, out |-> <<>>]).out

\* A breadth-first call that visits in depth-first order.
RunBfsDepthFirst(start) ==
    /\ Running
    /\ Returned(Call("bfs", <<start>>), -1, <<>>, <<>>, <<>>, <<>>,
                dfsDelivery(adjList, start))
    /\ UNCHANGED <<deliveryGraph, locationCount, adjList, edgeCalls,
                   avlVars, heapVars, hashVars,
                       cacheVars, refundVars>>

\* bfsDelivery(start) and dfsDelivery(start) read the adjacency lists only;
\* start and every dest index the arrays of MAX_LOCATIONS cells.
RunBfs(start) ==
    /\ Running
    /\ Returned(Call("bfs", <<start>>), -1, <<>>, <<>>, <<>>, <<>>,
                bfsDelivery(adjList, start))
    /\ UNCHANGED <<deliveryGraph, locationCount, adjList, edgeCalls,
                   avlVars, heapVars, hashVars,
                       cacheVars, refundVars>>

RunDfs(start) ==
    /\ Running
    /\ Returned(Call("dfs", <<start>>), -1, <<>>, <<>>, <<>>, <<>>,
                dfsDelivery(adjList, start))
    /\ UNCHANGED <<deliveryGraph, locationCount, adjList, edgeCalls,
                   avlVars, heapVars, hashVars,
                       cacheVars, refundVars>>

\* The relaxation loop of primMSTOptimized,
\*     for (v = 0; v < n; v++)
\*         if (deliveryGraph[u][v] && !inMST[v] && deliveryGraph[u][v] < key[v])
\* on the state s = [inMST, key, parent, pq], from v on.  As in Dijkstra a
\* pair is pushed only when key[v] has just dropped to its first component.
RECURSIVE PrimRelax(_, _, _, _, _)
PrimRelax(g, s, u, v, n) ==
    IF v >= n THEN s
    ELSE IF Weight(g, u, v) # 0 /\ v \notin s.inMST /\ Weight(g, u, v) < s.key[v]
         THEN PrimRelax(g, [s EXCEPT !.key[v] = Weight(g, u, v),
                                     !.parent[v] = u,
                                     !.pq = @ \cup {<<Weight(g, u, v), v>>}],
                        u, v + 1, n)
         ELSE PrimRelax(g, s, u, v + 1, n)

\* The while (!pq.empty()) loop of primMSTOptimized.
RECURSIVE PrimLoop(_, _, _)
PrimLoop(g, s, n) ==
    IF s.pq = {} THEN s
    ELSE LET top == QueueTop(s.pq)
             u   == top[2]
             s1  == [s EXCEPT !.pq = @ \ {top}]
         IN  IF u \in s.inMST THEN PrimLoop(g, s1, n)
             ELSE PrimLoop(g, PrimRelax(g, [s1 EXCEPT !.inMST = @ \cup {u}],
                                        u, 0, n), n)

\* The output loop of primMSTOptimized, from vertex i on:
\*     if (parent[i] != -1 && parent[i] >= 0 && parent[i] < n)
\*         { print parent[i] - i : deliveryGraph[i][parent[i]];
\*           totalCost += deliveryGraph[i][parent[i]]; }
\* The result is the record [edges, totalCost]; an edge is <<parent, i, w>>.
RECURSIVE PrimOutput(_, _, _, _, _)
PrimOutput(g, parent, i, n, out) ==
    IF i >= n THEN out
    ELSE IF parent[i] # -1 /\ parent[i] >= 0 /\ parent[i] < n
         THEN PrimOutput(g, parent, i + 1, n,
                         [edges     |-> Append(out.edges,
                                               <<parent[i], i, Weight(g, i, parent[i])>>),
                          totalCost |-> out.totalCost + Weight(g, i, parent[i])])
         ELSE PrimOutput(g, parent, i + 1, n, out)

\* void primMSTOptimized(int n) on matrix g, n > 0: parent[] at the end of
\* the loop, the edges printed and the total printed.
primMSTOptimized(g, n) ==
    LET s == PrimLoop(g, [inMST  |-> {},
                          key    |-> [[v \in 0..(n - 1) |-> DIST_INF] EXCEPT ![0] = 0],
                          parent |-> [v \in 0..(n - 1) |-> -1],
                          pq     |-> {<<0, 0>>}], n)
        out == PrimOutput(g, s.parent, 1, n, [edges |-> <<>>, totalCost |-> 0])
    IN  [parent |-> s.parent, edges |-> out.edges, totalCost |-> out.totalCost]

\* primMSTOptimized(locationCount), as the menu and the demo call it.
RunPrim ==
    /\ Running
    /\ locationCount > 0
    /\ Returned(Call("prim", <<>>), -1, <<>>, <<>>,
                primMSTOptimized(deliveryGraph, locationCount), <<>>, <<>>)
    /\ UNCHANGED <<deliveryGraph, locationCount, adjList, edgeCalls,
                   avlVars, heapVars, hashVars,
                       cacheVars, refundVars>>

\* The inner loop of tspApproximation, from j on, with the best so far:
\*     if (!visited[j] && deliveryGraph[current][j] < minDist)
\*         { minDist = deliveryGraph[current][j]; nearest = j; }
RECURSIVE NearestScan(_, _, _, _, _, _, _)
NearestScan(g, current, visited, j, n, nearest, minDist) ==
    IF j >= n THEN nearest
    ELSE IF j \notin visited /\ Weight(g, current, j) < minDist
         THEN NearestScan(g, current, visited, j + 1, n, j, Weight(g, current, j))
         ELSE NearestScan(g, current, visited, j + 1, n, nearest, minDist)

\* int nearest = -1; int minDist = 1e9; and the inner loop.
NearestUnvisited(g, current, visited, n) ==
    NearestScan(g, current, visited, 0, n, -1, TOUR_INF)

\* for (int i = 1; i < n; i++) of tspApproximation, on the state
\* s = [route, visited, current].
RECURSIVE TourLoop(_, _, _, _)
TourLoop(g, s, i, n) ==
    IF i >= n THEN s
    ELSE LET nearest == NearestUnvisited(g, s.current, s.visited, n)
         IN  IF nearest # -1
             THEN TourLoop(g, [route   |-> Append(s.route, nearest),
                               visited |-> s.visited \cup {nearest},
                               current |-> nearest], i + 1, n)
             ELSE TourLoop(g, s, i + 1, n)

\* vector<int> tspApproximation(int start, int n) on matrix g, start < n.
tspApproximation(g, start, n) ==
    Append(TourLoop(g, [route |-> <<start>>, visited |-> {start},
                        current |-> start], 1, n).route,
           start)

\* void displayTSPRoute(const vector<int>& route): one line per leg with the
\* matrix entry as its distance, and the sum of the entries as the total.
RECURSIVE SumLegs(_, _)
SumLegs(legs, k) == IF k > Len(legs) THEN 0 ELSE legs[k].dist + SumLegs(legs, k + 1)

displayTSPRoute(g, route) ==
    LET legs == [i \in 1..(Len(route) - 1) |->
                    [from |-> route[i], to |-> route[i + 1],
                     dist |-> Weight(g, route[i], route[i + 1])]]
    IN  [route |-> route, legs |-> legs, totalDistance |-> SumLegs(legs, 1)]

\* auto route = tspApproximation(start, locationCount); displayTSPRoute(route);
RunTour(start) ==
    /\ Running
    /\ locationCount > 0
    /\ start < locationCount
    /\ Returned(Call("tour", <<start>>), -1, <<>>, <<>>, <<>>,
                displayTSPRoute(deliveryGraph,
                                tspApproximation(deliveryGraph, start, locationCount)),
                <<>>)
    /\ UNCHANGED <<deliveryGraph, locationCount, adjList, edgeCalls,
                   avlVars, heapVars, hashVars,
                       cacheVars, refundVars>>

\* dijkstraOptimized(start, n) and tspApproximation(start, n) with
\* start >= n: dist[src] = 0 and visited[current] = true write past the end
\* of a vector of n elements, which is undefined.  The write lands in memory
\* the process may use (the function runs on; what it then prints is not
\* modelled) or the process faults.  The globals deliveryGraph and adjList
\* are not in the vector's storage.
QueryOutside(op, start) ==
    /\ Running
    /\ start >= locationCount
    /\ \E outcome \in {"done", "fault"} :
          Returned([op |-> op, ids |-> <<start>>, outcome |-> outcome],
                   -1, <<>>, <<>>, <<>>, <<>>, <<>>)
    /\ UNCHANGED <<deliveryGraph, locationCount, adjList, edgeCalls,
                   avlVars, heapVars, hashVars,
                       cacheVars, refundVars>>

\* The edges of the graph: v is in u's adjacency list.  The weight of an
\* edge is the weight the matrix holds for it (the most recent addEdge).
Vertices == 0..(locationCount - 1)
HasEdge(u, v) == \E k \in 1..Len(AdjOf(adjList, u)) : AdjOf(adjList, u)[k].dest = v

\* The least total weight of a path from src to each vertex, by rounds of
\* relaxation over the edges (Bellman-Ford); -1 where there is no path.
PathMin(a, b) == IF a = -1 THEN b ELSE IF b = -1 THEN a ELSE IF a <= b THEN a ELSE b
RECURSIVE BestVia(_, _, _)
BestVia(d, v, us) ==
    IF us = {} THEN d[v]
    ELSE LET u == CHOOSE x \in us : TRUE
             c == IF d[u] # -1 /\ HasEdge(u, v)
                  THEN d[u] + Weight(deliveryGraph, u, v) ELSE -1
         IN  PathMin(c, BestVia(d, v, us \ {u}))
RECURSIVE ShortestRounds(_, _)
ShortestRounds(d, rounds) ==
    IF rounds = 0 THEN d
    ELSE ShortestRounds([v \in Vertices |-> BestVia(d, v, Vertices)], rounds - 1)
ShortestFrom(src) ==
    ShortestRounds([v \in Vertices |-> IF v = src THEN 0 ELSE -1], locationCount)

(***************************************************************************)
(*                  LRUCache: class DataStructures::LRUCache               *)
(***************************************************************************)

\* LRUCache(int cap): the capacity of the cache of a run.
CacheCapacity == 2
\* Keys offered to put and get are 1..MaxCacheKey; put is not called once
\* the list holds MaxCacheNodes nodes and would grow.
MaxCacheKey   == 3
MaxCacheNodes == 3
CacheKeys     == 1..MaxCacheKey
CacheValues   == {1, 2}

\* What a read of node->value gives when the memory of the node has been
\* freed and written by the allocator: none of CacheValues.
Garbage == 0

\* Node(Key k, Value v); freed is set once the node has been deleted while
\* the list still links it.
CacheNode(k, v) == [key |-> k, value |-> v, freed |-> FALSE]

\* The state of an LRUCache as a record c: c.map is the set of keys of
\* cacheMap, c.list the nodes from head->next to tail->prev.  cacheMap[k]
\* points to the node the last put(k, ..) created, which is the first node
\* of the list with key k that has not been deleted: put adds its node at
\* the head, and a node that is moved to the head by get has been deleted.
CacheState == [map |-> cacheMap, list |-> cacheList]

\* cacheMap[k] as a position of the list.
NodeOf(list, k) ==
    CHOOSE i \in 1..Len(list) :
        /\ list[i].key = k /\ ~list[i].freed
        /\ \A j \in 1..(i - 1) : ~(list[j].key = k /\ ~list[j].freed)

\* The list without its i-th node.
Unlink(list, i) ==
    [j \in 1..(Len(list) - 1) |-> IF j < i THEN list[j] ELSE list[j + 1]]

\* void removeNode(Node* node), node being the i-th node of the list: it is
\* unlinked, its key is erased from the map, and it is deleted.
removeNode(c, i) ==
    [map |-> c.map \ {c.list[i].key}, list |-> Unlink(c.list, i)]

\* void addToHead(Node* node)
addToHead(c, node) == [c EXCEPT !.list = <<node>> \o c.list]

\* The nodes removeNode reads or writes: the node and its two neighbours
\* (head and tail are never deleted).
RemoveTouches(list, i) == {i - 1, i, i + 1} \cap (1..Len(list))

\* The position put(key, ..) removes before it adds its node, 0 for none:
\*     if (cacheMap.count(key)) removeNode(cacheMap[key]);
\*     else if (cacheMap.size() >= capacity) removeNode(tail->prev);
PutRemoves(c, key) ==
    IF key \in c.map THEN NodeOf(c.list, key)
    ELSE IF Cardinality(c.map) >= CacheCapacity THEN Len(c.list)
    ELSE 0

\* void put(Key key, Value value), every node read as it was written.
put(c, key, value) ==
    LET i  == PutRemoves(c, key)
        c1 == IF i = 0 THEN c ELSE removeNode(c, i)
        c2 == addToHead(c1, CacheNode(key, value))
    IN  [c2 EXCEPT !.map = @ \cup {key}]

\* put uses freed memory when removeNode touches a deleted node or when
\* addToHead finds one at head->next.
PutUsesFreed(c, key) ==
    LET i  == PutRemoves(c, key)
        c1 == IF i = 0 THEN c ELSE removeNode(c, i)
    IN  \/ i # 0 /\ \E j \in RemoveTouches(c.list, i) : c.list[j].freed
        \/ c1.list # <<>> /\ c1.list[1].freed

\* bool get(Key key, Value& value) for a key of the map:
\*     Node* node = cacheMap[key]; removeNode(node); addToHead(node);
\* removeNode erases the key and deletes the node; addToHead then links the
\* deleted node at the head.
getHit(c, key) ==
    LET i == NodeOf(c.list, key)
    IN  addToHead(removeNode(c, i), [c.list[i] EXCEPT !.freed = TRUE])

\* A cache call as its caller sees it: "done" (put), "hit" or "miss" (get
\* returned true or false), "fault" (the call did not return).
CacheCall(op, key, outcome, value) ==
    [op |-> op, key |-> key, outcome |-> outcome, value |-> value]

\* cache.put(key, value).  Where put uses freed memory the behaviour is
\* undefined: the build faults or goes on as if the memory were intact.
Put(key, value) ==
    LET c == put(CacheState, key, value)
    IN  /\ cacheFault = "none"
        /\ Len(c.list) <= MaxCacheNodes
        /\ \E outcome \in (IF PutUsesFreed(CacheState, key)
                           THEN {"done", "fault"} ELSE {"done"}) :
              /\ cacheCall' = CacheCall("put", key, outcome, value)
              /\ IF outcome = "fault"
                 THEN cacheFault' = "crash" /\ UNCHANGED <<cacheMap, cacheList>>
                 ELSE /\ cacheFault' = "none"
                      /\ cacheMap' = c.map
                      /\ cacheList' = c.list
        /\ UNCHANGED <<avlVars, heapVars, hashVars, graphVars, refundVars>>

\* cache.get(key, value).  For a key of the map, addToHead(node) and
\* value = node->value use the node removeNode has deleted: the build
\* faults, or goes on with the list linking the deleted node and value
\* read from its memory, which holds the stored value or what the
\* allocator wrote there.
Get(key) ==
    /\ cacheFault = "none"
    /\ IF key \notin cacheMap
       THEN /\ cacheCall' = CacheCall("get", key, "miss", Garbage)
            /\ UNCHANGED <<cacheMap, cacheList, cacheFault>>
       ELSE LET c == getHit(CacheState, key)
                v == cacheList[NodeOf(cacheList, key)].value
            IN  \E outcome \in {"hit", "fault"}, read \in {v, Garbage} :
                  /\ cacheCall' = CacheCall("get", key, outcome,
                                           IF outcome = "hit" THEN read ELSE Garbage)
                  /\ IF outcome = "fault"
                     THEN cacheFault' = "crash" /\ UNCHANGED <<cacheMap, cacheList>>
                     ELSE /\ cacheFault' = "none"
                          /\ cacheMap' = c.map
                          /\ cacheList' = c.list
    /\ UNCHANGED <<avlVars, heapVars, hashVars, graphVars, refundVars>>

(***************************************************************************)
(*          Order lifecycle and refunds: modifyOrder, cancelOrder,         *)
(*          requestRefund, approveRefund, processRefund                    *)
(***************************************************************************)

\* static const int MAX_REFUNDS = 500;
MAX_REFUNDS == 500
\* requestRefund is called at most MaxRefunds times in a run, and at most
\* MaxLifecycleOrders orders are created; order and refund ids offered to
\* the calls go one past those, so that ids not found are among them.
MaxRefunds         == 2
MaxLifecycleOrders == 2
OrderIds      == 1..(MaxLifecycleOrders + 1)
RefundIds     == 1..(MaxRefunds + 1)
OrderTotals   == {DemoTotal, DemoTotal + 150}
RefundAmounts == {100}

\* for (i = 0; i < orderHeapSize; i++) if (orderHeap[i].orderId == orderId):
\* the first such i, or -1.
OrderIndex(heap, size, orderId) ==
    LET found == {i \in 0..(size - 1) : heap[i].orderId = orderId}
    IN  IF found = {} THEN -1 ELSE CHOOSE i \in found : \A j \in found : i <= j

\* for (i = 0; i < refundCount; i++) if (refunds[i].refundId == refundId):
\* the first such record (1-based here), or 0.
RefundIndex(recs, refundId) ==
    LET found == {i \in 1..Len(recs) : recs[i].refundId = refundId}
    IN  IF found = {} THEN 0 ELSE CHOOSE i \in found : \A j \in found : i <= j

\* An order or refund call as its caller sees it: the bool or the amount
\* it returned; amount is 0 where the call produced none.
RefundCall(op, orderId, refundId, ok, amount) ==
    [op |-> op, orderId |-> orderId, refundId |-> refundId, ok |-> ok,
     amount |-> amount]

\* bool modifyOrder(int orderId, const vector<string>& newItems, double newTotal)
\* (the items of an order are not part of the Order record here).
ModifyOrder(orderId, newTotal) ==
    LET i == OrderIndex(orderHeap, orderHeapSize, orderId)
    IN  /\ heapFault = "none"
        /\ IF i # -1 /\ orderHeap[i].status = "CREATED"
           THEN /\ orderHeap' = [orderHeap EXCEPT ![i].totalAmount = newTotal]
                /\ refundCall' = RefundCall("modifyOrder", orderId, 0, TRUE, 0)
           ELSE /\ UNCHANGED orderHeap
                /\ refundCall' = RefundCall("modifyOrder", orderId, 0, FALSE, 0)
        /\ UNCHANGED <<orderHeapSize, heapFault, lastOp, lastExtracted,
                       refunds, paidOut,
                       avlVars, hashVars, graphVars, cacheVars>>

\* bool cancelOrder(int orderId, double& refundAmount)
CancelOrder(orderId) ==
    LET i == OrderIndex(orderHeap, orderHeapSize, orderId)
    IN  /\ heapFault = "none"
        /\ IF i # -1 /\ orderHeap[i].status # "SERVED"
           THEN /\ orderHeap' = [orderHeap EXCEPT ![i].status = "CANCELLED"]
                /\ refundCall' = RefundCall("cancelOrder", orderId, 0, TRUE,
                                           orderHeap[i].totalAmount)
           ELSE /\ UNCHANGED orderHeap
                /\ refundCall' = RefundCall("cancelOrder", orderId, 0, FALSE, 0)
        /\ UNCHANGED <<orderHeapSize, heapFault, lastOp, lastExtracted,
                       refunds, paidOut,
                       avlVars, hashVars, graphVars, cacheVars>>

\* bool requestRefund(int orderId, double amount, const string& reason)
RequestRefund(orderId, amount) ==
    /\ IF Len(refunds) >= MAX_REFUNDS
       THEN /\ UNCHANGED refunds
            /\ refundCall' = RefundCall("requestRefund", orderId, 0, FALSE, 0)
       ELSE /\ refunds' = Append(refunds, [refundId |-> Len(refunds) + 1,
                                           orderId |-> orderId,
                                           amount |-> amount,
                                           status |-> "Pending"])
            /\ refundCall' = RefundCall("requestRefund", orderId,
                                        Len(refunds) + 1, TRUE, 0)
    /\ UNCHANGED <<paidOut, avlVars, heapVars, hashVars, graphVars, cacheVars>>

\* bool approveRefund(int refundId)
ApproveRefund(refundId) ==
    LET i == RefundIndex(refunds, refundId)
    IN  /\ IF i # 0
           THEN /\ refunds' = [refunds EXCEPT ![i].status = "Approved"]
                /\ refundCall' = RefundCall("approveRefund", refunds[i].orderId,
                                            refundId, TRUE, 0)
           ELSE /\ UNCHANGED refunds
                /\ refundCall' = RefundCall("approveRefund", 0, refundId, FALSE, 0)
        /\ UNCHANGED <<paidOut, avlVars, heapVars, hashVars, graphVars, cacheVars>>

\* double processRefund(int refundId)
ProcessRefund(refundId) ==
    LET i == RefundIndex(refunds, refundId)
    IN  /\ IF i # 0 /\ refunds[i].status = "Approved"
           THEN /\ refunds' = [refunds EXCEPT ![i].status = "Completed"]
                /\ paidOut' = paidOut \cup {refundId}
                /\ refundCall' = RefundCall("processRefund", refunds[i].orderId,
                                            refundId, TRUE, refunds[i].amount)
           ELSE /\ UNCHANGED <<refunds, paidOut>>
                /\ refundCall' = RefundCall("processRefund", 0, refundId, FALSE, 0)
        /\ UNCHANGED <<avlVars, heapVars, hashVars, graphVars, cacheVars>>

(***************************************************************************)
(*                    Initial state and specifications                     *)
(***************************************************************************)

\* BSTNode *customerBST = nullptr;
InitAVL ==
    /\ customerBST = NULL
    /\ bstInserted = <<>>
    /\ bstRotated = FALSE
    /\ bstReport = [outcome |-> "none", present |-> FALSE, renamed |-> FALSE]

\* Domain::Order orderHeap[MAX_ORDERS]; int orderHeapSize = 0;
InitHeap ==
    /\ orderHeap = <<>>
    /\ orderHeapSize = 0
    /\ heapFault = "none"
    /\ lastOp = "none"
    /\ lastExtracted = EmptyOrder

\* DynamicInventoryTable() : currentSize(INITIAL_SIZE), itemCount(0)
\*     { table.resize(currentSize); }
InitHash(streams) ==
    /\ table = <<>>
    /\ currentSize = INITIAL_SIZE
    /\ itemCount = 0
    /\ hung = FALSE
    /\ profile \in streams
    /\ issued = 0
    /\ latest = <<>>
    /\ lookupKey = <<>>
    /\ lookupResult = <<"none", 0>>

\* The zero-initialised globals deliveryGraph, locationCount and adjList.
InitGraphVars ==
    /\ deliveryGraph = <<>>
    /\ locationCount = 0
    /\ adjList = <<>>
    /\ edgeCalls = 0
    /\ distSource = -1
    /\ distResult = <<>>
    /\ parentResult = <<>>
    /\ mstResult = <<>>
    /\ tourResult = <<>>
    /\ visitOrder = <<>>
    /\ graphCall = Call("none", <<>>)

\* LRUCache(int cap): head->next = tail, the map empty.
InitCache ==
    /\ cacheMap = {}
    /\ cacheList = <<>>
    /\ cacheFault = "none"
    /\ cacheCall = CacheCall("none", 0, "done", Garbage)

\* RefundRecord refunds[MAX_REFUNDS]; int refundCount = 0;
InitRefunds ==
    /\ refunds = <<>>
    /\ paidOut = {}
    /\ refundCall = RefundCall("none", 0, 0, FALSE, 0)

Init ==
    /\ InitAVL /\ InitHeap /\ InitHash({<<1, 1>>}) /\ InitGraphVars
    /\ InitCache /\ InitRefunds

InitAnyStream ==
    /\ InitAVL /\ InitHeap /\ InitHash(Profiles) /\ InitGraphVars
    /\ InitCache /\ InitRefunds

NextAVL ==
    \E key \in CustomerIds, name \in CustomerNames : InsertCustomer(key, name)

\* Inserts of customer ids in ascending order only (Scenario A).
NextAscending ==
    \E key \in CustomerIds, name \in CustomerNames :
        /\ \A k \in DOMAIN bstInserted : k < key
        /\ InsertCustomer(key, name)

NextHeap ==
    \/ \E prio \in 1..MaxPriority : orderHeapSize < MaxHeapLen /\ InsertOrder(prio)
    \/ ExtractMax

NextHeapCap == InsertOrder(CapPriority)

NextHash ==
    \/ \E j \in 0..(MaxKeys - 1), qty \in Quantities :
          /\ j < RekeyWindow \/ (j = issued /\ qty = 1)
          /\ InsertItem(j, qty)
    \/ \E j \in {0, issued - 1, issued} : j >= 0 /\ RetrieveItem(j)

NextGraph ==
    \/ \E nodes \in GraphSizes : InitGraph(nodes)
    \/ \E u \in Vertices, v \in Vertices, w \in EdgeWeights : AddEdge(u, v, w)
    \/ \E src \in Vertices : RunDijkstra(src)
    \/ \E start \in Vertices : RunBfs(start)
    \/ \E start \in Vertices : RunDfs(start)
    \/ RunPrim
    \/ \E start \in Vertices : RunTour(start)

SpecAVL     == Init /\ [][NextAVL]_vars
SpecAscending == Init /\ [][NextAscending]_vars
NextCache ==
    \/ \E key \in CacheKeys, value \in CacheValues : Put(key, value)
    \/ \E key \in CacheKeys : Get(key)

SpecCache   == Init /\ [][NextCache]_vars
\* Orders are created as by demoOrderManagement; the order and refund calls
\* come in any order with any of the ids.
NextLifecycle ==
    \/ orderHeapSize < MaxLifecycleOrders /\ InsertOrder(CapPriority)
    \/ \E orderId \in OrderIds, newTotal \in OrderTotals : ModifyOrder(orderId, newTotal)
    \/ \E orderId \in OrderIds : CancelOrder(orderId)
    \/ \E orderId \in OrderIds, amount \in RefundAmounts :
          Len(refunds) < MaxRefunds /\ RequestRefund(orderId, amount)
    \/ \E refundId \in RefundIds : ApproveRefund(refundId)
    \/ \E refundId \in RefundIds : ProcessRefund(refundId)

SpecLifecycle == Init /\ [][NextLifecycle]_vars
SpecHeap    == Init /\ [][NextHeap]_vars
SpecHeapCap == Init /\ [][NextHeapCap]_vars
SpecHash    == InitAnyStream /\ [][NextHash]_vars
SpecGraph   == Init /\ [][NextGraph]_vars

\* Tours on graphs whose weights reach the initial minDist of
\* tspApproximation.
NextTour ==
    \/ \E nodes \in GraphSizes : InitGraph(nodes)
    \/ \E u \in Vertices, v \in Vertices, w \in TourWeights : AddEdge(u, v, w)
    \/ \E start \in Vertices : RunTour(start)

SpecTour == Init /\ [][NextTour]_vars

\* Traversals of graphs large enough for breadth-first and depth-first
\* orders to differ.  addDeliveryEdge(u, v, w) and addDeliveryEdge(v, u, w)
\* leave the same matrix and lists, so u <= v.
NextTraversal ==
    \/ \E nodes \in TraversalSizes : InitGraph(nodes)
    \/ \E u \in Vertices, v \in Vertices :
          u <= v /\ edgeCalls < MaxTraversalEdges /\ AddEdgeCall(u, v, 1)
    \/ \E start \in Vertices : RunBfs(start)
    \/ \E start \in Vertices : RunDfs(start)

SpecTraversal == Init /\ [][NextTraversal]_vars

\* Graph calls whose vertex ids may lie one past the vertices of the graph
\* (locationCount itself; 0 before the first initDeliveryGraph).
NextGraphRange ==
    \/ \E nodes \in GraphSizes : InitGraph(nodes)
    \/ \E u \in 0..locationCount, v \in 0..locationCount, w \in EdgeWeights :
          AddEdge(u, v, w)
    \/ \E start \in 0..locationCount : RunBfs(start)
    \/ \E start \in 0..locationCount : RunDfs(start)
    \/ \E src \in Vertices : RunDijkstra(src)
    \/ \E start \in Vertices : RunTour(start)
    \/ \E op \in {"dijkstra", "tour"} : QueryOutside(op, locationCount)

SpecGraphRange == Init /\ [][NextGraphRange]_vars

(***************************************************************************)
(*                               Claims                                    *)
(***************************************************************************)

\* C1: after any sequence of inserts, retrieve(k) returns the quantity of
\* the most recent insert of k when k was inserted, and "not found" when k
\* was never inserted.
LookupReturnsLatest ==
    lookupResult[1] # "none" =>
        lookupResult = IF lookupKey \in DOMAIN latest
                       THEN <<"found", latest[lookupKey]>>
                       ELSE <<"notfound", 0>>

\* C2: right after every insert the number of occupied slots divided by the
\* capacity is strictly below 0.7.
LoadBelowThreshold == ~hung => 10 * OccupiedCount < 7 * currentSize

\* C3: after every insert every node of the tree has subtrees whose true
\* heights differ by at most one.
AVLBalanced == Balanced(customerBST)

AVLBalancedWitness == bstRotated /\ TreeSize(customerBST) >= 5

\* C4: the tree is a binary search tree, and its in-order traversal lists
\* exactly the inserted keys, strictly ascending, each once.
AVLSearchTree ==
    LET s == inorderBST(customerBST)
    IN  /\ IsBST(customerBST)
        /\ \A i \in 1..(Len(s) - 1) : s[i][1] < s[i + 1][1]
        /\ {s[i][1] : i \in 1..Len(s)} = DOMAIN bstInserted

AVLSearchTreeWitness ==
    /\ bstRotated
    /\ Len(inorderBST(customerBST)) >= 4
    /\ customerBST.left # NULL
    /\ customerBST.right # NULL

\* C5: after every completed insert or extractMax, in any interleaving,
\* every stored index i > 0 has priority(parent(i)) >= priority(i).
HeapOrderKept == HeapOrdered(orderHeap, orderHeapSize)

HeapOrderKeptWitness ==
    /\ lastOp = "insert"
    /\ lastExtracted # EmptyOrder
    /\ orderHeapSize >= 4
    /\ orderHeap[0].priority > orderHeap[orderHeapSize - 1].priority
    /\ orderHeap[0].orderId > 1

\* C6: every extractMax on a non-empty heap returns an order of maximal
\* priority among those stored, removes exactly that one order (the
\* remaining multiset is the previous one minus it) and leaves the heap
\* ordered.
ExtractTakesMaximum ==
    [][orderHeapSize' = orderHeapSize - 1 =>
        LET stored == {orderHeap[i] : i \in 0..(orderHeapSize - 1)}
        IN  /\ lastExtracted' \in stored
            /\ \A o \in stored : lastExtracted'.priority >= o.priority
            /\ \A o \in stored :
                  Occurrences(orderHeap', orderHeapSize', o)
                    = Occurrences(orderHeap, orderHeapSize, o)
                        - (IF o = lastExtracted' THEN 1 ELSE 0)
            /\ \A i \in 0..(orderHeapSize' - 1) : orderHeap'[i] \in stored
            /\ HeapOrdered(orderHeap', orderHeapSize')]_vars

ExtractTakesMaximumWitness ==
    /\ lastOp = "extract"
    /\ lastExtracted.priority >= 2
    /\ orderHeapSize >= 3
    /\ orderHeap[0].orderId # lastExtracted.orderId

\* The six-vertex graph of Scenario C, as initDeliveryGraph(6) and the nine
\* addDeliveryEdge calls of the routing menu leave the matrix.
ScenarioCEdges ==
    << <<0, 1, 7>>, <<0, 2, 9>>, <<0, 5, 14>>, <<1, 2, 10>>, <<1, 3, 15>>,
       <<2, 3, 11>>, <<2, 5, 2>>, <<3, 4, 6>>, <<4, 5, 9>> >>
RECURSIVE MatrixWithEdges(_, _)
MatrixWithEdges(g, es) ==
    IF es = <<>> THEN g
    ELSE MatrixWithEdges(AddEdgeToMatrix(g, Head(es)[1], Head(es)[2], Head(es)[3]),
                         Tail(es))
ScenarioCMatrix ==
    MatrixWithEdges([e \in (0..5) \X (0..5) |-> IF e[1] = e[2] THEN 0 ELSE NO_EDGE],
                    ScenarioCEdges)
ScenarioCDistances ==
    dijkstraOptimized(ScenarioCMatrix, 0, 6).dist
        = (0 :> 0) @@ (1 :> 7) @@ (2 :> 9) @@ (3 :> 20) @@ (4 :> 20) @@ (5 :> 11)

\* C7: with non-negative weights (zero included) dijkstraOptimized reports,
\* for every vertex reachable from the source, the least total weight of a
\* path to it; on the graph of Scenario C the distances from 0 are
\* 0, 7, 9, 20, 20, 11.
DijkstraFindsShortest ==
    /\ ScenarioCDistances
    /\ distSource # -1 =>
          \A v \in Vertices :
              ShortestFrom(distSource)[v] # -1 =>
                  distResult[v] = ShortestFrom(distSource)[v]

\* C8: in the result of dijkstraOptimized, dist[v] <= dist[u] + w for every
\* edge (u, v, w) of the graph, in both directions.
DijkstraTriangle ==
    distSource # -1 =>
        \A u \in Vertices, v \in Vertices :
            HasEdge(u, v) =>
                distResult[v] <= distResult[u] + Weight(deliveryGraph, u, v)

\* C9: in every reachable table state the probe loop of insert and of
\* retrieve exits, for the keys present and for absent ones.
ProbeLoopsExit ==
    /\ ~hung
    /\ \A j \in 0..issued :
          ProbeLoop(table, currentSize, KeyOf(profile, j),
                    hash(KeyOf(profile, j), currentSize), 1) # -1

\* C10: an insert into a heap that holds MAX_ORDERS orders is refused and
\* changes nothing, so the size never exceeds MAX_ORDERS and no order is
\* stored past the end of the array.
HeapWithinCapacity == heapFault = "none" /\ orderHeapSize <= MAX_ORDERS

\* C11: in every reachable state, the state right after a rehash included,
\* no key is held by two used nodes of the table.
OneSlotPerKey ==
    \A i \in 0..(currentSize - 1), j \in 0..(currentSize - 1) :
        (Slot(table, i).used /\ Slot(table, j).used
            /\ Slot(table, i).name = Slot(table, j).name) => i = j

\* The matrix holds an edge between two distinct vertices when the entry is
\* not the marker of initDeliveryGraph.
MatrixHasEdge(u, v) == Weight(deliveryGraph, u, v) # NO_EDGE

\* C12: after initDeliveryGraph and any addDeliveryEdge calls, repeated
\* calls on one pair with different weights included, v is in u's adjacency
\* list iff the matrix holds an edge between u and v, and every node of an
\* adjacency list carries the weight the matrix holds for its edge.
MatrixListsConsistent ==
    /\ \A u \in Vertices, v \in Vertices :
          u # v => (HasEdge(u, v) <=> MatrixHasEdge(u, v))
    /\ \A u \in Vertices : \A k \in 1..Len(AdjOf(adjList, u)) :
          AdjOf(adjList, u)[k].weight
              = Weight(deliveryGraph, u, AdjOf(adjList, u)[k].dest)

\* The output line of dijkstraOptimized for vertex v:
\*     Distance: (dist[i] == 1e9 ? -1 : dist[i])  and, if parent[i] != -1,
\*     (via parent[i]).
\* Every line shows a number as the distance; via = -1 stands for no
\* predecessor shown.
DijkstraLine(v) ==
    [distance |-> IF distResult[v] = DIST_INF THEN -1 ELSE distResult[v],
     via      |-> parentResult[v]]

\* C13: for a vertex without a path from the source the result of
\* dijkstraOptimized shows no number as its distance (neither 99999, 1e9 nor
\* -1) and no predecessor.
UnreachableNotNumeric ==
    distSource # -1 =>
        \A v \in Vertices :
            ShortestFrom(distSource)[v] = -1 =>
                /\ DijkstraLine(v).distance \notin Int
                /\ DijkstraLine(v).via = -1

\* The graph is connected: every vertex has a path from vertex 0 along the
\* edges added.
Connected == \A v \in Vertices : ShortestFrom(0)[v] # -1

\* C14: when primMSTOptimized runs on a disconnected graph, the vertices
\* not connected to vertex 0 end without a parent, and no edge printed and
\* no part of the total printed belongs to a pair of vertices that has no
\* edge.  (The output has no other part; a disconnected graph can only show
\* in the parentless vertices.)
MstOnDisconnected ==
    (mstResult # <<>> /\ ~Connected) =>
        /\ \A v \in Vertices : ShortestFrom(0)[v] = -1 => mstResult.parent[v] = -1
        /\ \A k \in 1..Len(mstResult.edges) :
              HasEdge(mstResult.edges[k][1], mstResult.edges[k][2])
        /\ mstResult.totalCost < NO_EDGE

\* Following parent pointers from v reaches vertex 0 within k steps.
RECURSIVE ReachesRoot(_, _, _)
ReachesRoot(p, v, k) ==
    IF v = 0 THEN TRUE
    ELSE IF k = 0 \/ p[v] = -1 THEN FALSE
    ELSE ReachesRoot(p, p[v], k - 1)

\* The spanning trees of the graph as parent functions rooted at 0, and the
\* least total weight of one.
SpanningTrees ==
    {p \in [Vertices \ {0} -> Vertices] :
        \A v \in Vertices \ {0} :
            /\ HasEdge(p[v], v)
            /\ ReachesRoot(p, v, locationCount)}
RECURSIVE TreeWeight(_, _)
TreeWeight(p, vs) ==
    IF vs = {} THEN 0
    ELSE LET v == CHOOSE x \in vs : TRUE
         IN  Weight(deliveryGraph, v, p[v]) + TreeWeight(p, vs \ {v})
IsMinSpanWeight(t) ==
    /\ \E p \in SpanningTrees : TreeWeight(p, Vertices \ {0}) = t
    /\ \A p \in SpanningTrees : TreeWeight(p, Vertices \ {0}) >= t

\* C15: on a connected graph with non-negative weights, zero included,
\* primMSTOptimized ends with parent pointers that form a spanning tree
\* rooted at 0 (every other vertex has a parent, n - 1 edges, no cycle, each
\* tree edge an edge of the graph) and prints the least total weight of a
\* spanning tree.
MstIsMinimal ==
    (mstResult # <<>> /\ Connected) =>
        /\ \A v \in Vertices \ {0} :
              /\ mstResult.parent[v] # -1
              /\ HasEdge(mstResult.parent[v], v)
              /\ ReachesRoot(mstResult.parent, v, locationCount)
        /\ Len(mstResult.edges) = locationCount - 1
        /\ IsMinSpanWeight(mstResult.totalCost)

\* The route and the output of displayTSPRoute on the graph of Scenario C,
\* from vertex 0.
ScenarioCTour ==
    displayTSPRoute(ScenarioCMatrix, tspApproximation(ScenarioCMatrix, 0, 6))

\* The legs of a displayed tour that have an edge in the matrix.
RECURSIVE SumEdgeLegs(_, _, _)
SumEdgeLegs(g, legs, k) ==
    IF k > Len(legs) THEN 0
    ELSE (IF Weight(g, legs[k].from, legs[k].to) = NO_EDGE THEN 0 ELSE legs[k].dist)
         + SumEdgeLegs(g, legs, k + 1)

\* In the displayed tour t on matrix g no leg without an edge shows a number
\* as its distance, and the total is the sum over the legs that have one.
LegsWithoutEdgeShown(g, t) ==
    /\ \A k \in 1..Len(t.legs) :
          Weight(g, t.legs[k].from, t.legs[k].to) = NO_EDGE =>
              t.legs[k].dist \notin Int
    /\ t.totalDistance = SumEdgeLegs(g, t.legs, 1)

\* C16: a leg of the tour whose pair of vertices has no edge in the matrix
\* is shown as unreachable, not with a finite distance, and is not added to
\* the total (on the graph of Scenario C from vertex 0: the closing leg
\* (3, 0), one instance of it).
TourLegUnreachable ==
    tourResult # <<>> => LegsWithoutEdgeShown(deliveryGraph, tourResult)

\* C17: for a graph of n vertices and a start below n, tspApproximation
\* returns n + 1 vertices, the first and the last being start, the first n a
\* permutation of 0..n-1, each vertex after the first an unvisited vertex of
\* least matrix weight from its predecessor; on the graph of Scenario C
\* from 0 the route is 0, 1, 2, 5, 4, 3, 0.
TourIsNearestNeighbour ==
    /\ ScenarioCTour.route = <<0, 1, 2, 5, 4, 3, 0>>
    /\ tourResult # <<>> =>
          LET r     == tourResult.route
              n     == locationCount
              start == graphCall.ids[1]
          IN  /\ Len(r) = n + 1
              /\ r[1] = start
              /\ r[n + 1] = start
              /\ {r[i] : i \in 1..n} = Vertices
              /\ \A i \in 2..n :
                    \A j \in Vertices \ {r[k] : k \in 1..(i - 1)} :
                        Weight(deliveryGraph, r[i - 1], r[i])
                            <= Weight(deliveryGraph, r[i - 1], j)

\* C18: an insert of a key already in the tree leaves the tree as it was
\* (shape, cached heights, the name stored for the key) and is reported to
\* the caller as "already present", not as an insertion.
DuplicateInsertNoOp ==
    [][bstReport'.present =>
          /\ customerBST' = customerBST
          /\ bstReport'.outcome = "already present"]_vars

OutOfRangeRefused ==
    [][(/\ graphCall'.op \in {"addEdge", "bfs", "dfs", "dijkstra", "tour"}
        /\ \E k \in 1..Len(graphCall'.ids) : graphCall'.ids[k] \notin Vertices)
          => /\ graphCall'.outcome = "OutOfRange"
             /\ deliveryGraph' = deliveryGraph
             /\ adjList' = adjList]_vars

\* The least number of edges on a path from start to each vertex along the
\* adjacency lists, by rounds (round k finds the vertices k edges away);
\* -1 where there is no path.
RECURSIVE HopRounds(_, _)
HopRounds(h, k) ==
    IF k > locationCount THEN h
    ELSE HopRounds([v \in Vertices |->
                       IF h[v] # -1 THEN h[v]
                       ELSE IF \E u \in Vertices : h[u] # -1 /\ HasEdge(u, v)
                            THEN k ELSE -1],
                   k + 1)
HopsFrom(start) ==
    HopRounds([v \in Vertices |-> IF v = start THEN 0 ELSE -1], 1)

\* C21: bfsDelivery(start) prints exactly the vertices reachable from
\* start, each once, start first, in non-decreasing number of edges from
\* start; a vertex enters the queue once, so the queue holds at most n
\* entries in all.
BfsOrder ==
    graphCall.op = "bfs" =>
        LET start == graphCall.ids[1]
            h     == HopsFrom(start)
        IN  /\ visitOrder[1] = start
            /\ {visitOrder[i] : i \in 1..Len(visitOrder)}
                   = {v \in Vertices : h[v] # -1}
            /\ \A i \in 1..Len(visitOrder), j \in 1..Len(visitOrder) :
                  /\ (visitOrder[i] = visitOrder[j] => i = j)
                  /\ (i < j => h[visitOrder[i]] <= h[visitOrder[j]])
            /\ Len(visitOrder) <= locationCount

BfsOrderWitness ==
    /\ graphCall.op = "bfs"
    /\ Len(visitOrder) = 4
    /\ HopsFrom(graphCall.ids[1])[visitOrder[4]] = 2
    /\ visitOrder # dfsDelivery(adjList, graphCall.ids[1])


\* The elements of a sequence.
Range(f) == {f[i] : i \in DOMAIN f}

\* The destinations of a vertex's adjacency list, head first.
Dests(adj, u) == [k \in 1..Len(AdjOf(adj, u)) |-> AdjOf(adj, u)[k].dest]

\* Depth-first preorder by an explicit stack: the top is emitted when it
\* has not been seen, and its list goes on the stack, head on top.
RECURSIVE StackWalk(_, _, _, _)
StackWalk(adj, stack, seen, out) ==
    IF stack = <<>> THEN out
    ELSE IF Head(stack) \in seen THEN StackWalk(adj, Tail(stack), seen, out)
    ELSE StackWalk(adj, Dests(adj, Head(stack)) \o Tail(stack),
                   seen \cup {Head(stack)}, Append(out, Head(stack)))

\* C22: dfs(start) emits exactly the vertices reachable from start (start
\* first, every later vertex a neighbour of an earlier one, no neighbour of
\* an emitted vertex left out), each once, in the depth-first preorder that
\* takes each vertex's unvisited neighbours in adjacency-list order; and
\* every addEdge(u, v, w) puts v at
\* the head of u's list and u at the head of v's list, so that order is the
\* neighbour of the most recently added edge first.
DfsPreorderStep ==
    /\ graphCall'.op = "dfs" =>
           LET start   == graphCall'.ids[1]
               emitted == {visitOrder'[i] : i \in 1..Len(visitOrder')}
           IN  /\ visitOrder' = StackWalk(adjList', <<start>>, {}, <<>>)
               /\ visitOrder'[1] = start
               /\ \A i \in 2..Len(visitOrder') : \E j \in 1..(i - 1) :
                      visitOrder'[i] \in Range(Dests(adjList', visitOrder'[j]))
               /\ \A u \in emitted : Range(Dests(adjList', u)) \subseteq emitted
               /\ \A i, j \in 1..Len(visitOrder') :
                      visitOrder'[i] = visitOrder'[j] => i = j
    /\ (graphCall'.op = "addEdge" /\ edgeCalls' = edgeCalls + 1) =>
           LET u == graphCall'.ids[1]
               v == graphCall'.ids[2]
           IN  /\ AdjOf(adjList', u)[1].dest = v
               /\ AdjOf(adjList', v)[1].dest = u
               /\ u # v => /\ Tail(AdjOf(adjList', u)) = AdjOf(adjList, u)
                           /\ Tail(AdjOf(adjList', v)) = AdjOf(adjList, v)
DfsPreorder == [][DfsPreorderStep]_vars

\* A depth-first walk over four vertices whose order differs both from the
\* breadth-first order and from the walk that takes the oldest edge first.
DfsPreorderWitness ==
    /\ graphCall.op = "dfs"
    /\ Len(visitOrder) = 4
    /\ visitOrder # bfsDelivery(adjList, graphCall.ids[1])
    /\ visitOrder # StackWalk(OldestFirst(adjList), <<graphCall.ids[1]>>, {}, <<>>)


\* C23: init(n) leaves every off-diagonal weight among the n vertices at
\* the unreachable marker, every diagonal entry at 0 and every adjacency
\* list empty, whatever the graph was before; and after any addEdge(u, v, w)
\* calls with u, v in [0,n), u = v included, the weight matrix is symmetric
\* and its diagonal is 0.
InitResetsAndMatrixSymmetricStep ==
    /\ graphCall'.op = "init" =>
           \A i \in 0..(locationCount' - 1) :
               /\ AdjOf(adjList', i) = <<>>
               /\ \A j \in 0..(locationCount' - 1) :
                      Weight(deliveryGraph', i, j) = (IF i = j THEN 0 ELSE NO_EDGE)
    /\ \A i \in 0..(locationCount' - 1) :
           /\ Weight(deliveryGraph', i, i) = 0
           /\ \A j \in 0..(locationCount' - 1) :
                  Weight(deliveryGraph', i, j) = Weight(deliveryGraph', j, i)
InitResetsAndMatrixSymmetric == [][InitResetsAndMatrixSymmetricStep]_vars


\* C24: starting empty at capacity 53 and inserting distinct keys, the
\* capacity is still 53 after each of the first 37 inserts and is 107 once
\* the 38th insert has completed.
RehashAtThirtyEighthStep ==
    (issued' = issued + 1 /\ ~hung') =>
        /\ issued' <= 37 => currentSize' = 53
        /\ issued' = 38 => currentSize' = 107
RehashAtThirtyEighth == [][RehashAtThirtyEighthStep]_vars


\* The tree with root b and the leaves a and c.
ThreeNodeTree(a, b, c, names) ==
    [key |-> b, name |-> names[b], height |-> 2,
     left |-> createNode(a, names[a]), right |-> createNode(c, names[c])]

\* Scenario A: 10, 20, 30 inserted into the empty tree.
ScenarioATree ==
    insertAVL(insertAVL(insertAVL(NULL, 10, "ann"), 20, "bob"), 30, "ann")

\* C25: inserting three keys a < b < c in ascending order into an empty
\* index performs a single left rotation at the third insert (none before
\* it) and ends with b as root, a as its left child and c as its right
\* child; for 10, 20, 30 the root is 20 with children 10 and 30.
AscendingThreeStep ==
    /\ Cardinality(DOMAIN bstInserted') <= 2 => ~bstRotated'
    /\ Cardinality(DOMAIN bstInserted') = 3 =>
           \E a, b, c \in CustomerIds :
               /\ a < b /\ b < c /\ DOMAIN bstInserted' = {a, b, c}
               /\ ~bstRotated /\ bstRotated'
               /\ customerBST' = ThreeNodeTree(a, b, c, bstInserted')
               /\ customerBST'
                    = leftRotate(insertNoRebalance(customerBST, c, bstInserted'[c]))
    /\ ScenarioATree
         = ThreeNodeTree(10, 20, 30, (10 :> "ann") @@ (20 :> "bob") @@ (30 :> "ann"))
AscendingThree == [][AscendingThreeStep]_vars

AscendingThreeWitness ==
    /\ Cardinality(DOMAIN bstInserted) = 3
    /\ bstRotated
    /\ customerBST.key = 3 /\ customerBST.left.key = 1 /\ customerBST.right.key = 6


\* C27: in every reachable state, across any sequence of inserts, those
\* that trigger a rehash included, size() equals the number of occupied
\* slots of the table and the number of distinct keys inserted so far.
SizeCountsOccupiedAndKeys ==
    ~hung => /\ itemCount = OccupiedCount
             /\ itemCount = Cardinality(DOMAIN latest)


\* The smallest prime >= n, by the definition of a prime.
IsPrime(n) == n > 1 /\ \A d \in 2..(n - 1) : n % d # 0
SmallestPrimeAtLeast(n) ==
    CHOOSE p \in n..(2 * n) : IsPrime(p) /\ \A q \in n..(p - 1) : ~IsPrime(q)

\* C28: the capacity changes only through a rehash, to the smallest prime
\* >= 2 x the capacity before it; the table after an insert that rehashed
\* holds exactly the entries occupied before it and the inserted one, each
\* in the slot the hash/probe rules give at the new capacity.
RehashRebuildsStep ==
    (currentSize' # currentSize /\ ~hung') =>
        /\ LoadAtThreshold(itemCount, currentSize)
        /\ currentSize' = SmallestPrimeAtLeast(2 * currentSize)
        /\ Cardinality({i \in 0..(currentSize' - 1) : Slot(table', i).used})
             = OccupiedCount + Cardinality(DOMAIN latest' \ DOMAIN latest)
        /\ \A i \in 0..(currentSize' - 1) :
               Slot(table', i).used =>
                   ProbeLoop(table', currentSize', Slot(table', i).name,
                             hash(Slot(table', i).name, currentSize'), 1) = i
RehashRebuilds == [][RehashRebuildsStep]_vars


\* C29: a successful get(k) returns the stored value and only marks k as
\* most recently used: k stays in the cache with the same value, the number
\* of cached entries is the same, a get(k) that follows at once finds k
\* again, and the map and the linked list hold the same set of keys.
GetKeepsEntryStep ==
    (cacheCall'.op = "get" /\ cacheCall'.outcome = "hit") =>
        LET k == cacheCall'.key
            v == cacheList[NodeOf(cacheList, k)].value
        IN  /\ cacheCall'.value = v
            /\ k \in cacheMap'
            /\ cacheList'[NodeOf(cacheList', k)].value = v
            /\ Cardinality(cacheMap') = Cardinality(cacheMap)
            /\ {cacheList'[i].key : i \in 1..Len(cacheList')} = cacheMap'
GetKeepsEntry == [][GetKeepsEntryStep]_vars


\* C26: over any sequence of modifyOrder, cancelOrder, requestRefund,
\* approveRefund and processRefund calls, a call produces a refund amount
\* only for an order that has reached the SERVED state.
RefundOnlyForServedStep ==
    (/\ refundCall'.op \in {"cancelOrder", "processRefund"}
     /\ refundCall'.ok
     /\ refunds' # refunds \/ orderHeap' # orderHeap) =>
        \E i \in 0..(orderHeapSize - 1) :
            /\ orderHeap[i].orderId = refundCall'.orderId
            /\ orderHeap[i].status = "SERVED"
RefundOnlyForServed == [][RefundOnlyForServedStep]_vars

\* C30: processRefund returns the amount of a refund record at most once,
\* and a refund that has reached Completed never becomes Approved again.
RefundPaidOnceStep ==
    /\ (refundCall'.op = "processRefund" /\ refundCall'.ok /\ refunds' # refunds)
           => refundCall'.refundId \notin paidOut
    /\ \A i \in 1..Len(refunds) :
           refunds[i].status = "Completed" => refunds'[i].status = "Completed"
RefundPaidOnce == [][RefundPaidOnceStep]_vars
=============================================================================
